---- MODULE Spec2Model ----
(***************************************************************************)
(* A model of the Black_Hole_Universe physics and collision engine         *)
(* (src/src/objects).  Numbers: the program computes in f32; the model     *)
(* computes in the integers, so a value of the model is an f32 value that  *)
(* happens to be integral, sums, differences and products are exact, and a *)
(* quotient is rounded to the nearest integer (FDiv).  Beyond 2^24 an f32  *)
(* no longer holds every integer; where a value can get that large (the    *)
(* draws of Gauss::sample) a sum is rounded as f32 rounds it (F32).        *)
(* Comparisons between a quotient or a square root and another number are  *)
(* decided exactly, by cross-multiplication and squaring.  The time of a   *)
(* frame is a fraction of a second: times are held in thousandths.         *)
(***************************************************************************)
EXTENDS Integers, Sequences, FiniteSets, TLC

VARIABLES
    bodies,          \* the active set: the Movable component of every Entity
    state,           \* the GameState resource
    BLACKHOLECOUNT,  \* static AtomicU32
    WORLDCOUNT,      \* static AtomicU32
    pc,              \* position of the running system
    workers,         \* update_collisions: bodies whose scan closure has not run
    to_despawn,      \* update_collisions: Mutex<BTreeSet<Entity>>
    to_destroy,      \* update_collisions: Mutex<CollisionFrame>, a sequence of CollisionSets
    commands,        \* the deferred Commands queue of the running system
    delta,           \* Res<Time>: time.delta_secs() of the frame, in thousandths
    elapsed_secs,    \* Res<Time>: time.elapsed_secs(), in thousandths
    sliders,         \* the SliderValue of each SliderType, in hundredths
    call,            \* the call under examination: its arguments and its locals
    ret              \* what the call returned

vars == <<bodies, state, BLACKHOLECOUNT, WORLDCOUNT, pc, workers, to_despawn,
          to_destroy, commands, delta, elapsed_secs, sliders, call, ret>>

\* the variables of the game, as opposed to the call under examination
game == <<bodies, state, BLACKHOLECOUNT, WORLDCOUNT, pc, workers, to_despawn,
          to_destroy, commands, delta, elapsed_secs, sliders>>

(***************************************************************************)
(* Program constants.                                                      *)
(***************************************************************************)
UNIVERSE_SIZE == 25000
MINIMUM_RADIUS == 1
MAXVELOCITY == 10000

\* const BOUNDARY: f32 = 0.5 * UNIVERSE_SIZE
BOUNDARY == UNIVERSE_SIZE \div 2

\* Option<T>: None, or Some(v)
None == <<>>
Some(v) == <<v>>
Unwrap(o) == o[1]

(***************************************************************************)
(* f32 helpers.                                                            *)
(***************************************************************************)
Abs(x) == IF x < 0 THEN -x ELSE x
Min(a, b) == IF a <= b THEN a ELSE b
Max(a, b) == IF a >= b THEN a ELSE b

\* n / d for d > 0, rounded to the nearest integer (halves away from zero)
FDiv(n, d) ==
    IF n >= 0 THEN (2 * n + d) \div (2 * d) ELSE -((2 * (-n) + d) \div (2 * d))

(***************************************************************************)
(* Movable                                                                 *)
(***************************************************************************)
\* impl Default for Movable
DefaultMovable ==
    [id |-> 0, otype |-> "BlackHole",
     position |-> [x |-> 0, y |-> 0, x_prev |-> 0, y_prev |-> 0],
     velocity |-> [vx |-> 0, vy |-> 0],
     size |-> [radius |-> 0, mass |-> 0]]

\* impl PartialEq for Movable: the ids alone are compared
MovableEq(a, b) == a.id = b.id

\* impl Ord for Movable
MovableLess(a, b) == a.id < b.id

(***************************************************************************)
(* CollisionSet: a BTreeSet<&Movable>, whose order and equality are the    *)
(* Movable's.  The model holds it as the set of the Movables it refers to. *)
(***************************************************************************)
CollisionSet_new == {}

\* BTreeSet::insert keeps the element already present when an equal one is inserted
CollisionSet_append(self, other) ==
    IF \E m \in self : MovableEq(m, other) THEN self ELSE self \cup {other}

CollisionSet_intersect(self, other) ==
    {m \in self : \E o \in other : MovableEq(m, o)}

\* BTreeSet::union yields self's element of an equal pair
CollisionSet_union(self, other) ==
    self \cup {o \in other : ~\E m \in self : MovableEq(m, o)}

CollisionSet_len(self) == Cardinality(self)

CollisionSet_is_empty(self) == self = {}

merge_intersection(one, two) ==
    IF ~CollisionSet_is_empty(CollisionSet_intersect(one, two))
    THEN Some(CollisionSet_union(one, two))
    ELSE None

(***************************************************************************)
(* CollisionFrame: a Vec<CollisionSet>                                     *)
(***************************************************************************)
CollisionFrame_new == <<>>

\* index of the first set of the array that intersects new, 0 if there is none
FirstIntersecting(array, new) ==
    LET hits == {i \in 1..Len(array) : merge_intersection(array[i], new) # None}
    IN IF hits = {} THEN 0 ELSE CHOOSE i \in hits : \A j \in hits : i <= j

\* push that never merges: every set is appended
CollisionFrame_push_Append(array, new) == Append(array, new)

\* the array after push: the first intersecting set is replaced by its union
\* with new and the loop breaks; with no such set, new is appended
CollisionFrame_push(array, new) ==
    LET i == FirstIntersecting(array, new)
    IN IF i # 0
       THEN [array EXCEPT ![i] = Unwrap(merge_intersection(array[i], new))]
       ELSE Append(array, new)

(***************************************************************************)
(* Position, LineSegment and the CollisionDetection trait                  *)
(* (src/src/objects/traits/collisions.rs).  A distance is held as the      *)
(* rational [num, den] of its square, den > 0.                             *)
(***************************************************************************)
Position_new(x, y) == [x |-> x, y |-> y, x_prev |-> x, y_prev |-> y]

\* the line a*x + b*y = c through (x_prev, y_prev) and (x, y); None for a
\* position that did not move
gen_line_segment(self) ==
    LET a == self.y_prev - self.y
        b == self.x - self.x_prev
        c == self.x * self.y_prev - self.x_prev * self.y
    IN IF a = 0 /\ b = 0 THEN None ELSE Some([pos |-> self, a |-> a, b |-> b, c |-> c])

\* p <= q for rationals with num >= 0 and den > 0, by whole parts and then by
\* the inverted remainders, so that no product is formed
RECURSIVE RatLe(_, _)
RatLe(p, q) ==
    LET ip == p.num \div p.den
        iq == q.num \div q.den
        rp == p.num % p.den
        rq == q.num % q.den
    IN IF ip # iq THEN ip < iq
       ELSE IF rp = 0 THEN TRUE
       ELSE IF rq = 0 THEN FALSE
       ELSE RatLe([num |-> q.den, den |-> rq], [num |-> p.den, den |-> rp])

RatMin(p, q) == IF RatLe(q, p) THEN q ELSE p

\* f32::min, f32::max
FMin(a, b) == IF a < b THEN a ELSE b
FMax(a, b) == IF a > b THEN a ELSE b

distance_to_pt(self, x, y) ==
    LET n == self.a * x + self.b * y + self.c
        d == self.a * self.a + self.b * self.b
        \* x_on_line * d and y_on_line * d, where factor = n / d
        x_on_line_d == x * d - self.a * n
        y_on_line_d == y * d - self.b * n
        within_x == /\ FMin(self.pos.x, self.pos.x_prev) * d <= x_on_line_d
                    /\ FMax(self.pos.x, self.pos.x_prev) * d >= x_on_line_d
        within_y == /\ FMin(self.pos.y, self.pos.y_prev) * d <= y_on_line_d
                    /\ FMax(self.pos.y, self.pos.y_prev) * d >= y_on_line_d
        d1 == (self.pos.x - x) * (self.pos.x - x) + (self.pos.y - y) * (self.pos.y - y)
        d2 == (self.pos.x_prev - x) * (self.pos.x_prev - x)
              + (self.pos.y_prev - y) * (self.pos.y_prev - y)
    IN IF within_x /\ within_y
       THEN [num |-> n * n, den |-> d]
       ELSE IF d1 < d2 THEN [num |-> d1, den |-> 1] ELSE [num |-> d2, den |-> 1]

\* m >= p / det and m <= p / det, for det # 0
GeQuot(m, p, det) == IF det > 0 THEN m * det >= p ELSE m * det <= p
LeQuot(m, p, det) == IF det > 0 THEN m * det <= p ELSE m * det >= p

\* self.minimum_distance(two), one being self.get_position()
minimum_distance(one, two) ==
    LET o1 == gen_line_segment(one)
        o2 == gen_line_segment(two)
    IN IF o1 = None \/ o2 = None
       THEN None
       ELSE LET l1 == Unwrap(o1)
                l2 == Unwrap(o2)
                det == (l1.b * l2.a) - (l2.b * l1.a)
                int_x == l2.b * l1.c - l1.b * l2.c   \* times det
                int_y == l1.a * l2.c - l2.a * l1.c   \* times det
            IN IF /\ det # 0
                  /\ GeQuot(FMin(one.x, one.x_prev), int_x, det)
                  /\ LeQuot(FMax(one.x, one.x_prev), int_x, det)
                  /\ GeQuot(FMin(one.y, one.y_prev), int_y, det)
                  /\ LeQuot(FMax(one.y, one.y_prev), int_y, det)
               THEN Some([num |-> 0, den |-> 1])
               ELSE Some(RatMin(distance_to_pt(l1, two.x, two.y),
                                distance_to_pt(l1, two.x_prev, two.y_prev)))

\* impl CollisionDetection for Movable
get_position(self) == self.position
get_hitbox(self) == self.size.radius

\* min_r <= r1 + r2, min_r being the non-negative root of a rational with a
\* positive denominator: num / den <= r * r, the quotient rounded up
RootLe(min_r, r) == r >= 0 /\ (min_r.num + min_r.den - 1) \div min_r.den <= r * r

collided(self, other) ==
    LET my_hitbox == get_hitbox(self)
        other_position == get_position(other)
        other_hitbox == get_hitbox(other)
        min_r == minimum_distance(get_position(self), other_position)
    IN IF min_r = None THEN FALSE ELSE RootLe(Unwrap(min_r), my_hitbox + other_hitbox)

(***************************************************************************)
(* impl Movable: the builder chain                                         *)
(***************************************************************************)
\* Movable::new with the id that fetch_add returned
\* Movable::new without the counters: the id of Default
Movable_new_Default(otype, id) == [DefaultMovable EXCEPT !.otype = otype]

Movable_new(otype, id) == [DefaultMovable EXCEPT !.id = id, !.otype = otype]

set_position(self, x, y) == [self EXCEPT !.position.x = x, !.position.y = y]

\* the second test reads vx again (movables.rs:342)
set_velocity(self, vx, vy) ==
    LET new_vx == IF vx < 0 THEN FMax(vx, -MAXVELOCITY) ELSE FMin(vx, MAXVELOCITY)
        new_vy == IF vx < 0 THEN FMax(vy, -MAXVELOCITY) ELSE FMin(vy, MAXVELOCITY)
    IN [self EXCEPT !.velocity.vx = new_vx, !.velocity.vy = new_vy]

set_size(self, mass, radius) == [self EXCEPT !.size.mass = mass, !.size.radius = radius]

build(self) ==
    [self EXCEPT !.position.x_prev = self.position.x, !.position.y_prev = self.position.y]

\* Sizes below one unit and the power laws of a World need fractions: there a
\* mass or a radius is held in thousandths, the f32 1.0 being Fixed, and the
\* callers that hold whole units pass 1 for one.
Fixed == 1000

\* f32::powf on thousandths, at the bases that the World masses of SpecSize
\* lead to: <<base, exponent, base.powf(exponent)>>
PowfTable ==
    {<<250, "0.27", 688>>, <<500, "0.27", 829>>, <<1000, "0.27", 1000>>,
     <<2000, "0.27", 1206>>, <<3000, "0.27", 1345>>, <<4000, "0.27", 1454>>,
     <<5000, "0.27", 1544>>, <<5100, "-0.06", 907>>, <<6000, "-0.06", 898>>,
     <<20000, "-0.06", 835>>, <<50000, "-0.06", 791>>,
     <<100000, "-0.06", 759>>, <<127000, "-0.06", 748>>,
     <<127500, "0.67", 25745>>, <<128000, "0.67", 25813>>,
     <<150000, "0.67", 28707>>, <<200000, "0.67", 34809>>,
     <<500000, "0.67", 64315>>, <<980, "100.0 / 27.0", 928>>,
     <<1000, "100.0 / 27.0", 1000>>, <<1206, "100.0 / 27.0", 2001>>,
     <<1345, "100.0 / 27.0", 2997>>, <<1454, "100.0 / 27.0", 4000>>,
     <<1544, "100.0 / 27.0", 4997>>, <<24845, "100.0 / 67.0", 120906>>,
     <<25209, "100.0 / 67.0", 123559>>, <<25745, "100.0 / 67.0", 127500>>,
     <<25813, "100.0 / 67.0", 128003>>, <<26273, "100.0 / 67.0", 131423>>,
     <<27734, "100.0 / 67.0", 142479>>, <<28707, "100.0 / 67.0", 150003>>,
     <<29827, "100.0 / 67.0", 158822>>, <<30125, "100.0 / 67.0", 161196>>,
     <<34809, "100.0 / 67.0", 200001>>, <<64314, "100.0 / 67.0", 499992>>}

powf(base, exponent) ==
    (CHOOSE entry \in PowfTable : entry[1] = base /\ entry[2] = exponent)[3]

\* the radius that set_mass stores for a mass, both in units of 1/one
mass_to_radius(otype, mass, one) ==
    CASE otype = "BlackHole" -> FMax(3 * mass, MINIMUM_RADIUS * one)
      [] otype = "World" ->
         LET m == FDiv(mass * Fixed, one)   \* in thousandths
             radius ==
                 IF m <= 5 * Fixed
                 THEN FMax(FDiv(1020 * powf(m, "0.27"), Fixed), MINIMUM_RADIUS * Fixed)
                 ELSE IF m <= 127 * Fixed
                      THEN FMax(FDiv(18600 * powf(m, "-0.06"), Fixed),
                                MINIMUM_RADIUS * Fixed)
                      ELSE FMax(FDiv(560 * powf(m, "0.67"), Fixed),
                                MINIMUM_RADIUS * Fixed)
         IN FDiv(radius * one, Fixed)

\* a set_radius that stores the radius as the mass
radius_to_mass_Identity(otype, radius, one) == radius

\* the mass that set_radius stores for a radius, both in units of 1/one
radius_to_mass(otype, radius, one) ==
    CASE otype = "BlackHole" -> FDiv(radius, 3)
      [] otype = "World" ->
         LET r == FDiv(radius * Fixed, one)   \* in thousandths
             mass ==
                 IF r * Fixed < 1575151
                 THEN powf(FDiv(r * Fixed, 1020), "100.0 / 27.0")
                 ELSE IF r * Fixed < 13908640
                      THEN powf(FDiv(r * Fixed, 18600), "-100.0 / 6.0")
                      ELSE powf(FDiv(r * Fixed, 560), "100.0 / 67.0")
         IN FDiv(mass * one, Fixed)

set_mass_in(one, self, mass) ==
    [self EXCEPT !.size.mass = mass,
                 !.size.radius = mass_to_radius(self.otype, mass, one)]

set_radius_in(one, self, radius) ==
    [self EXCEPT !.size.radius = radius,
                 !.size.mass = radius_to_mass(self.otype, radius, one)]

\* set_mass and set_radius on whole units
set_mass(self, mass) == set_mass_in(1, self, mass)

set_radius(self, radius) == set_radius_in(1, self, radius)

\* the wrapped displacement without the inversion of the sign
wrapped_displacement_Unsigned(self, other) ==
    LET dx_straight == other.position.x - self.position.x
        wrap_dx == UNIVERSE_SIZE - Abs(dx_straight)
        dy_straight == other.position.y - self.position.y
        wrap_dy == UNIVERSE_SIZE - Abs(dy_straight)
    IN [dx |-> IF wrap_dx < Abs(dx_straight) THEN wrap_dx ELSE dx_straight,
        dy |-> IF wrap_dy < Abs(dy_straight) THEN wrap_dy ELSE dy_straight]

\* calculate_acceleration, the wrapped displacement from self to other that
\* it computes before the magnitude and the direction of the acceleration
\* (movables.rs:455-479)
wrapped_displacement(self, other) ==
    LET dx_straight == other.position.x - self.position.x
        wrap_dx == UNIVERSE_SIZE - Abs(dx_straight)
        dy_straight == other.position.y - self.position.y
        wrap_dy == UNIVERSE_SIZE - Abs(dy_straight)
    IN [dx |-> IF wrap_dx < Abs(dx_straight)
               THEN (IF dx_straight < 0 THEN wrap_dx ELSE -wrap_dx)
               ELSE dx_straight,
        dy |-> IF wrap_dy < Abs(dy_straight)
               THEN (IF dy_straight < 0 THEN wrap_dy ELSE -wrap_dy)
               ELSE dy_straight]

G == 100000000
EPSILON == 1000
MAXACCELERATION == 10000

\* the integer nearest to the square root of n, found between low and high
RECURSIVE sqrt_between(_, _, _)
sqrt_between(n, low, high) ==
    IF low >= high THEN low
    ELSE LET middle == (low + high + 1) \div 2
         IN IF middle * middle - middle < n
            THEN sqrt_between(n, middle, high)
            ELSE sqrt_between(n, low, middle - 1)

\* f32::sqrt; 46340 is the root of the largest square that the integers hold
sqrt(n) == sqrt_between(n, 0, 46340)

\* dy.atan2(dx).cos() and dy.atan2(dx).sin() in thousandths: the fractions
\* dx / sqrt(r) and dy / sqrt(r), the root taken in hundredths where r
\* leaves room for it; atan2(0, 0) is 0
cos_atan2(dy, dx) ==
    LET r == dx * dx + dy * dy
    IN IF r = 0 THEN Fixed
       ELSE IF r <= 200000 THEN FDiv(dx * 100 * Fixed, sqrt(r * 10000))
       ELSE FDiv(dx * Fixed, sqrt(r))

sin_atan2(dy, dx) ==
    LET r == dx * dx + dy * dy
    IN IF r = 0 THEN 0
       ELSE IF r <= 200000 THEN FDiv(dy * 100 * Fixed, sqrt(r * 10000))
       ELSE FDiv(dy * Fixed, sqrt(r))

\* calculate_acceleration; G * mass exceeds the integers of the model, so the
\* quotient is taken with its two sides in hundreds
calculate_acceleration(self, other) ==
    LET d == wrapped_displacement(self, other)
        r == d.dx * d.dx + d.dy * d.dy
        a == FMin(FDiv((G \div 100) * other.size.mass, FDiv(r + EPSILON, 100)),
                  MAXACCELERATION)
    IN [ax |-> FDiv(a * cos_atan2(d.dy, d.dx), Fixed),
        ay |-> FDiv(a * sin_atan2(d.dy, d.dx), Fixed)]

\* update_location, time_delta in thousandths of a second
update_location(self, time_delta) ==
    [self EXCEPT !.position.x = @ + FDiv(self.velocity.vx * time_delta, Fixed),
                 !.position.y = @ + FDiv(self.velocity.vy * time_delta, Fixed)]

\* the loop of update_velocity: acc after others[k..] have been summed into it
RECURSIVE sum_accelerations(_, _, _, _)
sum_accelerations(self, others, k, acc) ==
    IF k > Len(others) THEN acc
    ELSE IF ~MovableEq(self, others[k])
    THEN LET cur == calculate_acceleration(self, others[k])
         IN sum_accelerations(self, others, k + 1,
                              [ax |-> acc.ax + cur.ax, ay |-> acc.ay + cur.ay])
    ELSE sum_accelerations(self, others, k + 1, acc)

\* Movable::update_velocity, time in thousandths of a second
update_velocity(self, others, time) ==
    LET acc == sum_accelerations(self, others, 1, [ax |-> 0, ay |-> 0])
    IN [vx |-> self.velocity.vx + FDiv(acc.ax * time, Fixed),
        vy |-> self.velocity.vy + FDiv(acc.ay * time, Fixed)]

\* generate_blackhole(one, two), id being what BLACKHOLECOUNT.fetch_add returned
generate_blackhole(one, two, id) ==
    LET new_mass == one.size.mass + two.size.mass
        center_of_mass_x ==
            FDiv(one.size.mass * one.position.x + two.size.mass * two.position.x,
                 one.size.mass + two.size.mass)
        center_of_mass_y ==
            FDiv(one.size.mass * one.position.y + two.size.mass * two.position.y,
                 one.size.mass + two.size.mass)
        new_velocity_x ==
            FDiv(one.size.mass * one.velocity.vx + two.size.mass * two.velocity.vx, new_mass)
        new_velocity_y ==
            FDiv(one.size.mass * one.velocity.vy + two.size.mass * two.velocity.vy, new_mass)
    IN build(set_mass(set_velocity(set_position(Movable_new("BlackHole", id),
                                                center_of_mass_x, center_of_mass_y),
                                   new_velocity_x, new_velocity_y),
                      new_mass))

\* the builder chain of setup_objects and update_slider_results
\* (plugins.rs:192-196): a black hole as it is spawned
Built(id, x, y, vx, vy, mass) ==
    build(set_mass(set_velocity(set_position(Movable_new("BlackHole", id), x, y), vx, vy),
                   mass))

(***************************************************************************)
(* Sliders (src/src/objects/sliders.rs).  A SliderValue lies between 0.0   *)
(* and 1.0; the model holds it in hundredths.                              *)
(***************************************************************************)
SliderTypes == {"Count", "Mass", "Density", "Velocity"}

\* impl Default for SliderValue: 0.5
SliderValue_default == [value |-> 50, prev_value |-> 50]

SliderDefaults == [slider \in SliderTypes |-> SliderValue_default]

(***************************************************************************)
(* GameState (src/src/objects/gamestate.rs)                                *)
(***************************************************************************)
GameState_new ==
    [world_alive |-> TRUE, game_alive |-> TRUE, game_started |-> FALSE,
     planet_placed |-> FALSE, restart_clicked |-> FALSE]

(***************************************************************************)
(* The state in which nothing has been built yet; every specification      *)
(* below starts from it, changed where it says so.                         *)
(***************************************************************************)
FreshGame ==
    /\ bodies = <<>>
    /\ state = GameState_new
    /\ BLACKHOLECOUNT = 0
    /\ WORLDCOUNT = 0
    /\ pc = "idle"
    /\ workers = {}
    /\ to_despawn = {}
    /\ to_destroy = CollisionFrame_new
    /\ commands = <<>>
    /\ delta = 0
    /\ elapsed_secs = 0
    /\ sliders = SliderDefaults

\* a call whose arguments are drawn from inputs, not yet made
Called(inputs) ==
    /\ FreshGame
    /\ call \in inputs
    /\ ret = None

\* the call is made and returns result
Returns(result) ==
    /\ ret = None
    /\ ret' = Some(result)
    /\ UNCHANGED <<game, call>>

(***************************************************************************)
(* SpecPush: CollisionFrame::push called with any CollisionSets, in any    *)
(* order, on a frame that starts empty.                                    *)
(***************************************************************************)
MaxPushId == 3
MaxPushes == 3

\* a &Movable: the Movable it refers to is found by kind and id
Ref(m) == [otype |-> m.otype, id |-> m.id]

PushUniverse == {Ref(Movable_new("BlackHole", i)) : i \in 0..MaxPushId}

\* the non-empty CollisionSets over the universe
PushSets == (SUBSET PushUniverse) \ {{}}

InitPush ==
    /\ FreshGame
    /\ call = <<>>
    /\ ret = None

\* to_destroy.push(new); call lists the sets pushed so far, ret is the value
\* the last push returned (found)
Push(new) ==
    /\ Len(call) < MaxPushes
    /\ to_destroy' = CollisionFrame_push(to_destroy, new)
    /\ call' = Append(call, new)
    /\ ret' = Some(FirstIntersecting(to_destroy, new) # 0)
    /\ UNCHANGED <<bodies, state, BLACKHOLECOUNT, WORLDCOUNT, pc, workers,
                   to_despawn, commands, delta, elapsed_secs, sliders>>

NextPush == \E new \in PushSets : Push(new)

SpecPush == InitPush /\ [][NextPush]_vars

\* C1: after any sequence of pushes, no two CollisionSets of the frame share a
\* member.
C1_FrameDisjoint ==
    \A i, j \in 1..Len(to_destroy) : i # j => to_destroy[i] \cap to_destroy[j] = {}

\* C2: pushing two pairs that share exactly one member, {A,B} and {B,C}, into
\* an empty frame leaves exactly one group, whose members are exactly A, B and C.
C2_TransitiveGrouping ==
    (/\ Len(call) = 2
     /\ Cardinality(call[1]) = 2
     /\ Cardinality(call[2]) = 2
     /\ Cardinality(call[1] \cap call[2]) = 1)
    => (/\ Len(to_destroy) = 1
        /\ to_destroy[1] = call[1] \cup call[2]
        /\ Cardinality(to_destroy[1]) = 3)

C2_Witness ==
    /\ Len(call) = 2
    /\ Cardinality(call[1]) = 2
    /\ Cardinality(call[2]) = 2
    /\ Cardinality(call[1] \cap call[2]) = 1
    /\ ret = Some(TRUE)

(***************************************************************************)
(* SpecCollided: a.collided(b) and b.collided(a) for two black holes whose *)
(* current and previous positions and masses are drawn from a grid.        *)
(***************************************************************************)
MaxX == 1
MaxY == 1
GridStep == 20
MaxMass == 3

GridX == {GridStep * i : i \in -MaxX..MaxX}
GridY == {GridStep * j : j \in 0..MaxY}

GridPositions ==
    {[x |-> x, y |-> y, x_prev |-> xp, y_prev |-> yp] :
        x \in GridX, y \in GridY, xp \in GridX, yp \in GridY}

\* the masses Gauss::sample leaves a black hole with: ClampBoth((2.0, 20.0))
BLACKHOLE_MASS_LOWER == 2
Masses == BLACKHOLE_MASS_LOWER..MaxMass

\* a black hole of a mass, hence of radius 3 * mass, at a position
Placed(id, pos, mass) ==
    [set_mass(Movable_new("BlackHole", id), mass) EXCEPT !.position = pos]

\* a.collided(b) is about to be called on two black holes of the grid
InitCollided ==
    /\ FreshGame
    /\ \E p1 \in GridPositions, p2 \in GridPositions, m1 \in Masses, m2 \in Masses :
          call = [op |-> "collided", self |-> Placed(0, p1, m1),
                  other |-> Placed(1, p2, m2)]
    /\ ret = None

\* both directions of the test, as the scans of the two bodies make it
Collided ==
    /\ call.op = "collided"
    /\ Returns([self_other |-> collided(call.self, call.other),
                other_self |-> collided(call.other, call.self)])

NextCollided == Collided

SpecCollided == InitCollided /\ [][NextCollided]_vars

Moved(m) == m.position.x # m.position.x_prev \/ m.position.y # m.position.y_prev

\* the square of the distance between the current positions
CurrentDistance2(a, b) ==
    (a.position.x - b.position.x) * (a.position.x - b.position.x)
    + (a.position.y - b.position.y) * (a.position.y - b.position.y)

\* the segment m swept this frame passes within r of the point (px, py)
SweptWithin(m, px, py, r) ==
    LET dx == m.position.x - m.position.x_prev
        dy == m.position.y - m.position.y_prev
        wx == px - m.position.x_prev
        wy == py - m.position.y_prev
        dot == wx * dx + wy * dy
        len2 == dx * dx + dy * dy
        cross == wx * dy - wy * dx
    IN IF dot <= 0 THEN wx * wx + wy * wy <= r * r
       ELSE IF dot >= len2
            THEN (px - m.position.x) * (px - m.position.x)
                 + (py - m.position.y) * (py - m.position.y) <= r * r
            ELSE cross * cross <= r * r * len2

RadiusSum(a, b) == a.size.radius + b.size.radius

\* C5: when one body did not move and the other's swept segment passes
\* within r1 + r2 of it, collided returns true, whichever is the receiver.
C5_SweepPastStationary ==
    (/\ ret # None
     /\ ~Moved(call.self)
     /\ Moved(call.other)
     /\ SweptWithin(call.other, call.self.position.x, call.self.position.y,
                    RadiusSum(call.self, call.other)))
    => (Unwrap(ret).self_other /\ Unwrap(ret).other_self)

\* C6: whenever the distance between the current positions is at most
\* r1 + r2, collided returns true.
C6_NeverMissesCircleTest ==
    (/\ ret # None
     /\ CurrentDistance2(call.self, call.other)
            <= RadiusSum(call.self, call.other) * RadiusSum(call.self, call.other))
    => Unwrap(ret).self_other

\* C7: when both bodies are stationary, collided returns the result of the
\* instantaneous circle test.
C7_StationaryCircleTest ==
    (/\ ret # None
     /\ ~Moved(call.self)
     /\ ~Moved(call.other))
    => (Unwrap(ret).self_other
        <=> CurrentDistance2(call.self, call.other)
                <= RadiusSum(call.self, call.other) * RadiusSum(call.self, call.other))

(***************************************************************************)
(* SpecVelocity: set_velocity(vx, vy) on a new Movable, the components     *)
(* drawn from around zero and around both limits.                          *)
(***************************************************************************)
MaxOver == 2

VelocityInputs ==
    {-MAXVELOCITY - k : k \in -MaxOver..MaxOver}
    \cup {MAXVELOCITY + k : k \in -MaxOver..MaxOver}
    \cup (-MaxOver..MaxOver)

InitVelocity ==
    Called({[op |-> "set_velocity", vx |-> vx, vy |-> vy] :
                vx \in VelocityInputs, vy \in VelocityInputs})

SetVelocity ==
    /\ call.op = "set_velocity"
    /\ Returns(set_velocity(Movable_new("BlackHole", 0), call.vx, call.vy).velocity)

NextVelocity == SetVelocity

SpecVelocity == InitVelocity /\ [][NextVelocity]_vars

\* C8: after set_velocity(vx, vy) both stored components have magnitude at
\* most MAX_VELOCITY, and an input component already within the limits is
\* stored unchanged.
C8_VelocityClamp ==
    ret # None =>
        /\ Abs(Unwrap(ret).vx) <= MAXVELOCITY
        /\ Abs(Unwrap(ret).vy) <= MAXVELOCITY
        /\ (Abs(call.vx) <= MAXVELOCITY => Unwrap(ret).vx = call.vx)
        /\ (Abs(call.vy) <= MAXVELOCITY => Unwrap(ret).vy = call.vy)

(***************************************************************************)
(* SpecWrap: the wrapped displacement of calculate_acceleration, from self *)
(* to other and from other to self, for positions of the universe drawn    *)
(* from around the centre and around both edges.                           *)
(***************************************************************************)
WrapCoordinates ==
    {-BOUNDARY + k : k \in 0..MaxOver}
    \cup {BOUNDARY - k : k \in 0..MaxOver}
    \cup (-MaxOver..MaxOver)

InitWrap ==
    Called({[op |-> "calculate_acceleration",
             self |-> Built(0, x1, y1, 0, 0, BLACKHOLE_MASS_LOWER),
             other |-> Built(1, x2, y2, 0, 0, BLACKHOLE_MASS_LOWER)] :
                x1 \in WrapCoordinates, y1 \in {0, BOUNDARY},
                x2 \in WrapCoordinates, y2 \in {0, -BOUNDARY}})

CalculateAcceleration ==
    /\ call.op = "calculate_acceleration"
    /\ Returns([self_other |-> wrapped_displacement(call.self, call.other),
                other_self |-> wrapped_displacement(call.other, call.self)])

NextWrap == CalculateAcceleration

SpecWrap == InitWrap /\ [][NextWrap]_vars

\* C9: the wrapped displacement from A to B is the exact negation of the one
\* from B to A, including when an axis separation is exactly UNIVERSE_SIZE/2.
C9_WrapSymmetry ==
    ret # None =>
        /\ Unwrap(ret).self_other.dx = -Unwrap(ret).other_self.dx
        /\ Unwrap(ret).self_other.dy = -Unwrap(ret).other_self.dy

\* a separation of exactly UNIVERSE_SIZE/2 on one axis, and on the other a
\* separation that the wrap shortens
C9_Witness ==
    /\ ret # None
    /\ Abs(call.other.position.y - call.self.position.y) = BOUNDARY
    /\ Abs(call.other.position.x - call.self.position.x) > BOUNDARY
    /\ Abs(Unwrap(ret).self_other.dx) < BOUNDARY
    /\ Abs(Unwrap(ret).self_other.dy) = BOUNDARY

(***************************************************************************)
(* SpecMerge: generate_blackhole(one, two) for two black holes as          *)
(* update_velocity leaves them: each velocity is what set_velocity stored  *)
(* for a raw velocity drawn from around zero and beyond both limits.       *)
(***************************************************************************)
MergeBodies(id) ==
    {Built(id, x, 0, vx, vy, mass) :
        x \in {0, 5}, vx \in {-1, 1 + MaxOver},
        vy \in {-MAXVELOCITY - MaxOver, 0, MAXVELOCITY + MaxOver},
        mass \in Masses}

\* section 8: masses 10 and 20 at (0,0) and (5,0), both at rest
MergeScenario ==
    [op |-> "generate_blackhole",
     one |-> Built(0, 0, 0, 0, 0, 10), two |-> Built(1, 5, 0, 0, 0, 20)]

InitMerge ==
    /\ bodies = <<>>
    /\ state = GameState_new
    /\ BLACKHOLECOUNT = 2
    /\ WORLDCOUNT = 0
    /\ pc = "idle"
    /\ workers = {}
    /\ to_despawn = {}
    /\ to_destroy = CollisionFrame_new
    /\ commands = <<>>
    /\ delta = 0
    /\ elapsed_secs = 0
    /\ sliders = SliderDefaults
    /\ call \in {[op |-> "generate_blackhole", one |-> one, two |-> two] :
                    one \in MergeBodies(0), two \in MergeBodies(1)}
                \cup {MergeScenario}
    /\ ret = None

GenerateBlackhole ==
    /\ call.op = "generate_blackhole"
    /\ ret = None
    /\ ret' = Some(generate_blackhole(call.one, call.two, BLACKHOLECOUNT))
    /\ BLACKHOLECOUNT' = BLACKHOLECOUNT + 1
    /\ UNCHANGED <<bodies, state, WORLDCOUNT, pc, workers, to_despawn,
                   to_destroy, commands, delta, elapsed_secs, sliders, call>>

NextMerge == GenerateBlackhole

SpecMerge == InitMerge /\ [][NextMerge]_vars

\* value is total / mass to the nearest integer
IsWeightedAverage(value, total, mass) == 2 * Abs(value * mass - total) <= mass

\* C4: generate_blackhole(one, two) returns a BlackHole whose mass is the sum
\* of the two masses, whose position is the mass-weighted average of the two
\* positions and whose velocity is the mass-weighted average of the two
\* velocities.
C4_MergeConserves ==
    ret # None =>
        LET one == call.one
            two == call.two
            new == Unwrap(ret)
            mass == one.size.mass + two.size.mass
        IN /\ new.otype = "BlackHole"
           /\ new.size.mass = mass
           /\ IsWeightedAverage(new.position.x,
                  one.size.mass * one.position.x + two.size.mass * two.position.x, mass)
           /\ IsWeightedAverage(new.position.y,
                  one.size.mass * one.position.y + two.size.mass * two.position.y, mass)
           /\ IsWeightedAverage(new.velocity.vx,
                  one.size.mass * one.velocity.vx + two.size.mass * two.velocity.vx, mass)
           /\ IsWeightedAverage(new.velocity.vy,
                  one.size.mass * one.velocity.vy + two.size.mass * two.velocity.vy, mass)

(***************************************************************************)
(* The systems of a frame (src/src/objects/plugins.rs), chained in the     *)
(* Update schedule: update_motion, update_collisions, the deferred         *)
(* Commands of update_collisions, check_for_gameover.  bodies maps every   *)
(* live Entity to its Movable; the Transform, the meshes and the labels    *)
(* are the renderer's and are left out.                                    *)
(***************************************************************************)
MaxOf(S) == IF S = {} THEN 0 ELSE CHOOSE n \in S : \A m \in S : m <= n
MinOf(S) == CHOOSE n \in S : \A m \in S : n <= m

\* the entities of a set in ascending order, as a Query and a BTreeSet yield them
RECURSIVE InOrder(_)
InOrder(S) == IF S = {} THEN <<>> ELSE <<MinOf(S)>> \o InOrder(S \ {MinOf(S)})

\* a coordinate clamped to the boundary instead of wrapped
spherical_wrap_Clamp(coordinate) ==
    IF coordinate > BOUNDARY THEN BOUNDARY
    ELSE IF coordinate < -BOUNDARY THEN -BOUNDARY
    ELSE coordinate

\* spherical universe wrap around of one coordinate
spherical_wrap(coordinate) ==
    IF coordinate > BOUNDARY THEN coordinate - UNIVERSE_SIZE
    ELSE IF coordinate < -BOUNDARY THEN coordinate + UNIVERSE_SIZE
    ELSE coordinate

\* the body of the loop of update_motion
move(movable, elapsed) ==
    LET snapshot == [movable EXCEPT !.position.x_prev = movable.position.x,
                                    !.position.y_prev = movable.position.y]
        located == update_location(snapshot, elapsed)
    IN [located EXCEPT !.position.x = spherical_wrap(located.position.x),
                       !.position.y = spherical_wrap(located.position.y)]

\* update_motion without the test of the flags
UpdateMotion_Ungated ==
    /\ pc = "update_motion"
    /\ bodies' = [e \in DOMAIN bodies |-> move(bodies[e], delta)]
    /\ pc' = "update_collisions"
    /\ UNCHANGED <<state, BLACKHOLECOUNT, WORLDCOUNT, workers, to_despawn,
                   to_destroy, commands, delta, elapsed_secs, sliders, call, ret>>

UpdateMotion ==
    /\ pc = "update_motion"
    /\ bodies' = IF state.game_started /\ state.game_alive
                 THEN [e \in DOMAIN bodies |-> move(bodies[e], delta)]
                 ELSE bodies
    /\ pc' = "update_collisions"
    /\ UNCHANGED <<state, BLACKHOLECOUNT, WORLDCOUNT, workers, to_despawn,
                   to_destroy, commands, delta, elapsed_secs, sliders, call, ret>>

\* update_collisions up to par_iter: the two accumulators are created and one
\* closure per entity is handed to the pool
UpdateCollisionsBegin ==
    /\ pc = "update_collisions"
    /\ to_despawn' = {}
    /\ to_destroy' = CollisionFrame_new
    /\ commands' = <<>>
    /\ IF state.game_started /\ state.game_alive
       THEN workers' = DOMAIN bodies /\ pc' = "par_iter"
       ELSE workers' = {} /\ pc' = "apply_deferred"
    /\ UNCHANGED <<bodies, state, BLACKHOLECOUNT, WORLDCOUNT, delta, elapsed_secs,
                   sliders, call, ret>>

\* set after the items of the sequence have been appended to it in order
RECURSIVE AppendAll(_, _)
AppendAll(set, items) ==
    IF items = <<>> THEN set
    ELSE AppendAll(CollisionSet_append(set, Head(items)), Tail(items))

\* the entities whose item the closure of entity appends to its set
Partners(entity) ==
    {i \in DOMAIN bodies : /\ ~MovableEq(bodies[i], bodies[entity])
                           /\ collided(bodies[i], bodies[entity])}

\* the closure of one entity; it holds the lock of to_despawn from the insert
\* to its end, so the insert and the push are one step
Scan(entity) ==
    /\ pc = "par_iter"
    /\ entity \in workers
    /\ workers' = workers \ {entity}
    /\ LET partners == InOrder(Partners(entity))
           set == AppendAll(CollisionSet_new, [k \in 1..Len(partners) |-> bodies[partners[k]]])
       IN IF Len(partners) > 0
          THEN /\ to_despawn' = to_despawn \cup {entity}
               /\ to_destroy' = CollisionFrame_push(to_destroy,
                                                    CollisionSet_append(set, bodies[entity]))
          ELSE UNCHANGED <<to_despawn, to_destroy>>
    /\ UNCHANGED <<bodies, state, BLACKHOLECOUNT, WORLDCOUNT, pc, commands,
                   delta, elapsed_secs, sliders, call, ret>>

\* the members of a CollisionSet in the order of the BTreeSet
RECURSIVE Sorted(_)
Sorted(set) ==
    IF set = {} THEN <<>>
    ELSE LET first == CHOOSE m \in set : \A o \in set : o = m \/ MovableLess(m, o)
         IN <<first>> \o Sorted(set \ {first})

\* split_planet, id being the value of BLACKHOLECOUNT before the two calls of
\* Movable::new(&ObjectType::BlackHole).  cos and sin of theta + 45 degrees
\* and of theta - 45 degrees are taken from those of theta, all in
\* thousandths, 1414 being the root of 2.
split_planet(self, id) ==
    LET new_velocity ==
            FDiv(sqrt(self.velocity.vx * self.velocity.vx
                      + self.velocity.vy * self.velocity.vy), 2)
        cos_theta == cos_atan2(self.velocity.vy, self.velocity.vx)
        sin_theta == sin_atan2(self.velocity.vy, self.velocity.vx)
        new_radius == FDiv(self.size.radius, 2)
        cos_plus == FDiv((cos_theta - sin_theta) * Fixed, 1414)
        sin_plus == FDiv((sin_theta + cos_theta) * Fixed, 1414)
        cos_minus == FDiv((cos_theta + sin_theta) * Fixed, 1414)
        sin_minus == FDiv((sin_theta - cos_theta) * Fixed, 1414)
        p1 == build(set_radius(
                  set_velocity(
                      set_position(Movable_new("BlackHole", id),
                                   self.position.x + FDiv(new_radius * cos_plus, Fixed),
                                   self.position.y + FDiv(new_radius * sin_plus, Fixed)),
                      FDiv(new_velocity * cos_plus, Fixed),
                      FDiv(new_velocity * sin_plus, Fixed)),
                  new_radius))
        p2 == build(set_radius(
                  set_velocity(
                      set_position(Movable_new("BlackHole", id + 1),
                                   self.position.x - FDiv(new_radius * cos_minus, Fixed),
                                   self.position.y - FDiv(new_radius * sin_minus, Fixed)),
                      FDiv(new_velocity * cos_minus, Fixed),
                      FDiv(new_velocity * sin_minus, Fixed)),
                  new_radius))
    IN <<p1, p2>>

\* the loop of the planets-only arm of process_collisions: the pairs of
\* items[k..], in order
RECURSIVE split_all(_, _, _)
split_all(items, k, id) ==
    IF k > Len(items) THEN <<>>
    ELSE split_planet(items[k], id) \o split_all(items, k + 1, id + 2)

\* a loop of process_collisions that merges nothing
cumsum_Stop(cur, items, k, id) == cur

\* the loop of process_collisions: cur merged with items[k..], id being the
\* value of BLACKHOLECOUNT before each merge
RECURSIVE cumsum(_, _, _, _)
cumsum(cur, items, k, id) ==
    IF k > Len(items) THEN cur
    ELSE cumsum(generate_blackhole(cur, items[k], id), items, k + 1, id + 1)

\* process_collisions: every merge draws one id, every split two
process_collisions(items, id) ==
    LET count == Len(items)
        bh_count == Cardinality({k \in 1..count : items[k].otype = "BlackHole"})
    IN CASE count = 0 -> [result |-> <<>>, ids |-> 0]
         \* items[1] of a slice of one item: the thread panics
         [] count = 1 /\ bh_count > 0 ->
            [result |-> <<[panic |-> "index out of bounds"]>>, ids |-> 0]
         [] count > 1 /\ bh_count > 0 ->
            [result |-> <<cumsum(generate_blackhole(items[1], items[2], id), items, 3, id + 1)>>,
             ids |-> count - 1]
         [] count > 0 /\ bh_count = 0 ->
            [result |-> split_all(items, 1, id), ids |-> 2 * count]

\* collide without the test of the count
collide_Unguarded(self, id) == process_collisions(Sorted(self), id)

collide(self, id) ==
    IF CollisionSet_len(self) > 1
    THEN process_collisions(Sorted(self), id)
    ELSE [result |-> <<>>, ids |-> 0]

\* CollisionFrame::collect from the k-th set on: the results flattened
RECURSIVE collect(_, _, _)
collect(array, k, id) ==
    IF k > Len(array) THEN [result |-> <<>>, ids |-> 0]
    ELSE LET one == collide(array[k], id)
             rest == collect(array, k + 1, id + one.ids)
         IN [result |-> one.result \o rest.result, ids |-> one.ids + rest.ids]

\* update_collisions issuing its Commands without waiting for the join
UpdateCollisionsEnd_Early ==
    /\ pc = "par_iter"
    /\ LET despawn == InOrder(to_despawn)
           collected == collect(to_destroy, 1, BLACKHOLECOUNT)
       IN /\ commands' = [k \in 1..Len(despawn) |-> [op |-> "despawn", entity |-> despawn[k]]]
                         \o [k \in 1..Len(collected.result) |->
                                [op |-> "spawn", object |-> collected.result[k]]]
          /\ BLACKHOLECOUNT' = BLACKHOLECOUNT + collected.ids
    /\ pc' = "apply_deferred"
    /\ UNCHANGED <<bodies, state, WORLDCOUNT, workers, to_despawn, to_destroy,
                   delta, elapsed_secs, sliders, call, ret>>

\* update_collisions after the join: a despawn per entity of to_despawn, then
\* a spawn per object that collect returned
UpdateCollisionsEnd ==
    /\ pc = "par_iter"
    /\ workers = {}
    /\ LET despawn == InOrder(to_despawn)
           collected == collect(to_destroy, 1, BLACKHOLECOUNT)
       IN /\ commands' = [k \in 1..Len(despawn) |-> [op |-> "despawn", entity |-> despawn[k]]]
                         \o [k \in 1..Len(collected.result) |->
                                [op |-> "spawn", object |-> collected.result[k]]]
          /\ BLACKHOLECOUNT' = BLACKHOLECOUNT + collected.ids
    /\ pc' = "apply_deferred"
    /\ UNCHANGED <<bodies, state, WORLDCOUNT, workers, to_despawn, to_destroy,
                   delta, elapsed_secs, sliders, call, ret>>

\* the world after the queued commands have been applied in order
RECURSIVE apply(_, _)
apply(world, queue) ==
    IF queue = <<>> THEN world
    ELSE LET command == Head(queue)
             entity == MaxOf(DOMAIN world) + 1
         IN apply(IF command.op = "despawn"
                  THEN [e \in DOMAIN world \ {command.entity} |-> world[e]]
                  ELSE [e \in DOMAIN world \cup {entity} |->
                           IF e = entity THEN command.object ELSE world[e]],
                  Tail(queue))

\* the sync point between update_collisions and check_for_gameover
ApplyDeferred ==
    /\ pc = "apply_deferred"
    /\ bodies' = apply(bodies, commands)
    /\ commands' = <<>>
    /\ pc' = "check_for_gameover"
    /\ UNCHANGED <<state, BLACKHOLECOUNT, WORLDCOUNT, workers, to_despawn,
                   to_destroy, delta, elapsed_secs, sliders, call, ret>>

\* check_for_gameover without the test of game_started
CheckForGameover_Unstarted ==
    /\ pc = "check_for_gameover"
    /\ LET bh_count == Cardinality({e \in DOMAIN bodies : bodies[e].otype = "BlackHole"})
           planet_count == Cardinality({e \in DOMAIN bodies : bodies[e].otype = "World"})
       IN state' = [state EXCEPT
                       !.world_alive = IF planet_count = 0 THEN FALSE ELSE @,
                       !.game_alive = IF bh_count + planet_count <= 1 THEN FALSE ELSE @]
    /\ pc' = "idle"
    /\ UNCHANGED <<bodies, BLACKHOLECOUNT, WORLDCOUNT, workers, to_despawn,
                   to_destroy, commands, delta, elapsed_secs, sliders, call, ret>>

CheckForGameover ==
    /\ pc = "check_for_gameover"
    /\ LET bh_count == Cardinality({e \in DOMAIN bodies : bodies[e].otype = "BlackHole"})
           planet_count == Cardinality({e \in DOMAIN bodies : bodies[e].otype = "World"})
       IN state' = IF state.game_started
                   THEN [state EXCEPT
                            !.world_alive = IF planet_count = 0 THEN FALSE ELSE @,
                            !.game_alive = IF bh_count + planet_count <= 1 THEN FALSE ELSE @]
                   ELSE state
    /\ pc' = "idle"
    /\ UNCHANGED <<bodies, BLACKHOLECOUNT, WORLDCOUNT, workers, to_despawn,
                   to_destroy, commands, delta, elapsed_secs, sliders, call, ret>>

NextFrame ==
    \/ UpdateMotion
    \/ UpdateCollisionsBegin
    \/ \E entity \in workers : Scan(entity)
    \/ UpdateCollisionsEnd
    \/ ApplyDeferred
    \/ CheckForGameover

\* a game that has started and whose planet a black hole has swallowed
StartedGame ==
    [world_alive |-> FALSE, game_alive |-> TRUE, game_started |-> TRUE,
     planet_placed |-> TRUE, restart_clicked |-> FALSE]

(***************************************************************************)
(* SpecMotion: update_motion on two black holes of a started game, placed  *)
(* around the centre and around both edges of the universe, with           *)
(* velocities up to the limit in both directions.                          *)
(***************************************************************************)
MaxDelta == 2

MotionVelocities == {-MAXVELOCITY, -1, 0, 1, MAXVELOCITY}

InitMotion ==
    /\ \E x \in WrapCoordinates, vx \in MotionVelocities,
          y \in WrapCoordinates, vy \in MotionVelocities :
            bodies = <<Built(0, x, 0, vx, 0, BLACKHOLE_MASS_LOWER),
                       Built(2, 0, y, 0, vy, BLACKHOLE_MASS_LOWER)>>
    /\ state = StartedGame
    /\ BLACKHOLECOUNT = 3
    /\ WORLDCOUNT = 1
    /\ pc = "update_motion"
    /\ workers = {}
    /\ to_despawn = {}
    /\ to_destroy = CollisionFrame_new
    /\ commands = <<>>
    /\ delta \in {seconds * Fixed : seconds \in 1..MaxDelta}
    /\ elapsed_secs = delta
    /\ sliders = SliderDefaults
    /\ call = <<>>
    /\ ret = None

NextMotion == UpdateMotion

SpecMotion == InitMotion /\ [][NextMotion]_vars

\* what update_motion must store for a coordinate that integration moved to
\* integrated
WrapsAsClaimed(integrated, stored) ==
    LET above == integrated - BOUNDARY    \* d, when integrated = BOUNDARY + d
        below == -BOUNDARY - integrated   \* d, when integrated = -BOUNDARY - d
    IN /\ (0 < above /\ above <= UNIVERSE_SIZE) => stored = -BOUNDARY + above
       /\ (0 < below /\ below <= UNIVERSE_SIZE) => stored = BOUNDARY - below
       /\ (integrated >= -BOUNDARY /\ integrated <= BOUNDARY) => stored = integrated

\* C10: in update_motion a coordinate that integration moved to
\* UNIVERSE_SIZE/2 + d, 0 < d <= UNIVERSE_SIZE, is stored as
\* -UNIVERSE_SIZE/2 + d, one moved to -UNIVERSE_SIZE/2 - d is stored as
\* UNIVERSE_SIZE/2 - d, and one within the boundaries is left as integrated.
C10_MotionWraps ==
    pc = "update_collisions" =>
        \A e \in DOMAIN bodies :
            LET p == bodies[e].position
                v == bodies[e].velocity
            IN /\ WrapsAsClaimed(p.x_prev + FDiv(v.vx * delta, Fixed), p.x)
               /\ WrapsAsClaimed(p.y_prev + FDiv(v.vy * delta, Fixed), p.y)

\* one body left the universe by one unit on the right and came back on the
\* left, the other left at the bottom
C10_Witness ==
    /\ pc = "update_collisions"
    /\ bodies[1].position.x_prev + FDiv(bodies[1].velocity.vx * delta, Fixed)
          = BOUNDARY + 1
    /\ bodies[1].position.x = -BOUNDARY + 1
    /\ bodies[2].position.y_prev + FDiv(bodies[2].velocity.vy * delta, Fixed)
          < -BOUNDARY
    /\ bodies[2].position.y > 0

(***************************************************************************)
(* SpecCollisions: one frame, from update_motion on, of a started game of  *)
(* three black holes.  Two start on the grid with a velocity that takes    *)
(* them to the grid; the third either rests or crosses the grid.           *)
(***************************************************************************)
GridVelocities(x, y) ==
    {[vx |-> gx - x, vy |-> gy - y] : gx \in GridX, gy \in GridY}

Crossing ==
    {Built(3, 0, 3 * GridStep, 0, 0, BLACKHOLE_MASS_LOWER),
     Built(3, GridStep, 0, -2 * GridStep, GridStep, BLACKHOLE_MASS_LOWER)}

InitCollisions ==
    /\ \E x0 \in GridX, y0 \in GridY, x1 \in GridX, y1 \in GridY, m0 \in Masses :
          \E v0 \in GridVelocities(x0, y0), v1 \in GridVelocities(x1, y1), third \in Crossing :
            bodies = <<Built(0, x0, y0, v0.vx, v0.vy, m0),
                       Built(1, x1, y1, v1.vx, v1.vy, BLACKHOLE_MASS_LOWER),
                       third>>
    /\ state = StartedGame
    /\ BLACKHOLECOUNT = 4
    /\ WORLDCOUNT = 1
    /\ pc = "update_motion"
    /\ workers = {}
    /\ to_despawn = {}
    /\ to_destroy = CollisionFrame_new
    /\ commands = <<>>
    /\ delta = Fixed
    /\ elapsed_secs = Fixed
    /\ sliders = SliderDefaults
    /\ call = <<>>
    /\ ret = None

SpecCollisions == InitCollisions /\ [][NextFrame]_vars

\* the Movables of the active set
Active == {bodies[e] : e \in DOMAIN bodies}

\* the members of the CollisionSets of the frame
Members == UNION {to_destroy[i] : i \in 1..Len(to_destroy)}

\* C3: at the end of update_collisions every member of every CollisionSet of
\* the frame has been issued a despawn and every resolution output a spawn,
\* and once the commands are applied no member remains in the active set.
C3_MembersDespawned ==
    /\ (pc = "apply_deferred" /\ state.game_started /\ state.game_alive) =>
          /\ \A m \in Members :
                \E k \in 1..Len(commands) :
                    /\ commands[k].op = "despawn"
                    /\ bodies[commands[k].entity] = m
          /\ Cardinality({k \in 1..Len(commands) : commands[k].op = "spawn"})
                = Len(to_destroy)
    /\ pc \in {"check_for_gameover", "idle"} => Members \cap Active = {}

(***************************************************************************)
(* Gauss (src/src/objects/gauss.rs).  The draw of the Normal distribution  *)
(* is any f32; sample matches it against the boundary.                     *)
(***************************************************************************)
\* the distance between two neighbouring f32 values around n
Ulp(n) ==
    CASE Abs(n) < 16777216 -> 1
      [] Abs(n) >= 16777216 /\ Abs(n) < 33554432 -> 2
      [] Abs(n) >= 33554432 /\ Abs(n) < 67108864 -> 4
      [] Abs(n) >= 67108864 /\ Abs(n) < 134217728 -> 8
      [] Abs(n) >= 134217728 /\ Abs(n) < 268435456 -> 16
      [] Abs(n) >= 268435456 /\ Abs(n) < 536870912 -> 32
      [] Abs(n) >= 536870912 /\ Abs(n) < 1073741824 -> 64
      [] Abs(n) >= 1073741824 -> 128

\* the f32 nearest to the integer n, ties to the even significand
F32(n) ==
    LET u == Ulp(n)
        q == Abs(n) \div u
        r == Abs(n) % u
        up == 2 * r > u \/ (2 * r = u /\ q % 2 = 1)
        magnitude == (IF up THEN q + 1 ELSE q) * u
    IN IF n < 0 THEN -magnitude ELSE magnitude

\* the arms of sample that return at once, with no boundary enforced
sample_match_Unbounded(boundary, value) == value

\* the arms None, Lower, Upper and ClampBoth of the match of sample
sample_match(boundary, value) ==
    CASE boundary.kind = "None" -> value
      [] boundary.kind = "Lower" -> FMax(value, boundary.n)
      [] boundary.kind = "Upper" -> FMin(value, boundary.n)
      [] boundary.kind = "ClampBoth" -> FMin(FMax(value, boundary.lower), boundary.upper)

(***************************************************************************)
(* SpecGauss: sample() on a Gauss of any boundary, the limits drawn from   *)
(* around zero, the draw from around the limits, several widths beyond     *)
(* them, and far beyond them.                                              *)
(***************************************************************************)
MaxLimit == 10
MaxDraw == 36

\* a draw so far out that the width of a range is less than half an ulp of it
FarDraw == 1073741824

Limits == {-MaxLimit, 0, MaxLimit}

Boundaries ==
    {[kind |-> "None"]}
    \cup {[kind |-> k, n |-> n] : k \in {"Lower", "Upper"}, n \in Limits}
    \cup {b \in {[kind |-> "ClampBoth", lower |-> lo, upper |-> hi] :
                    lo \in Limits, hi \in Limits} : b.lower <= b.upper}
    \cup {b \in {[kind |-> "WrapBoth", lower |-> lo, upper |-> hi] :
                    lo \in Limits, hi \in Limits} : b.lower < b.upper}

Draws == (-MaxDraw..MaxDraw) \cup {F32(-FarDraw), F32(FarDraw)}

\* Gauss::new
InitGauss ==
    /\ FreshGame
    /\ call \in {[op |-> "sample", boundary |-> b] : b \in Boundaries}
    /\ ret = None

\* sample up to the loops: the draw, and the arms that return at once
Sample(value) ==
    /\ pc = "idle"
    /\ ret = None
    /\ IF call.boundary.kind = "WrapBoth"
       THEN /\ call' = [op |-> "sample", boundary |-> call.boundary,
                        value |-> value, wrapped |-> value]
            /\ pc' = "while_lower"
            /\ ret' = ret
       ELSE /\ call' = [op |-> "sample", boundary |-> call.boundary, value |-> value]
            /\ pc' = "returned"
            /\ ret' = Some(sample_match(call.boundary, value))
    /\ UNCHANGED <<bodies, state, BLACKHOLECOUNT, WORLDCOUNT, workers,
                   to_despawn, to_destroy, commands, delta, elapsed_secs, sliders>>

\* while wrapped < lower { wrapped += -lower + upper; }
WhileLower ==
    /\ pc = "while_lower"
    /\ IF call.wrapped < call.boundary.lower
       THEN /\ call' = [call EXCEPT !.wrapped =
                           F32(@ + F32(-call.boundary.lower + call.boundary.upper))]
            /\ pc' = pc
       ELSE /\ call' = call
            /\ pc' = "while_upper"
    /\ UNCHANGED <<bodies, state, BLACKHOLECOUNT, WORLDCOUNT, workers,
                   to_despawn, to_destroy, commands, delta, elapsed_secs, sliders,
                   ret>>

\* while wrapped > upper { wrapped += -upper + lower; } wrapped
WhileUpper ==
    /\ pc = "while_upper"
    /\ IF call.wrapped > call.boundary.upper
       THEN /\ call' = [call EXCEPT !.wrapped =
                           F32(@ + F32(-call.boundary.upper + call.boundary.lower))]
            /\ pc' = pc
            /\ ret' = ret
       ELSE /\ call' = call
            /\ pc' = "returned"
            /\ ret' = Some(call.wrapped)
    /\ UNCHANGED <<bodies, state, BLACKHOLECOUNT, WORLDCOUNT, workers,
                   to_despawn, to_destroy, commands, delta, elapsed_secs, sliders>>

NextGauss ==
    \/ \E value \in Draws : Sample(value)
    \/ WhileLower
    \/ WhileUpper

SpecGauss == InitGauss /\ [][NextGauss]_vars

\* the thread that called sample keeps running
SpecGaussFair == SpecGauss /\ WF_vars(NextGauss)

\* C11: every value that sample returns respects the boundary: at least n for
\* Lower(n), at most n for Upper(n), within [lower, upper] for ClampBoth and
\* for WrapBoth.
C11_SampleWithinBoundary ==
    ret # None =>
        LET b == call.boundary
            value == Unwrap(ret)
        IN /\ b.kind = "Lower" => value >= b.n
           /\ b.kind = "Upper" => value <= b.n
           /\ b.kind \in {"ClampBoth", "WrapBoth"} => (b.lower <= value /\ value <= b.upper)

\* a draw at least two widths above the range was wrapped into it
C11_Witness ==
    /\ ret # None
    /\ call.boundary.kind = "WrapBoth"
    /\ call.value > call.boundary.upper + 2 * (call.boundary.upper - call.boundary.lower)
    /\ Unwrap(ret) >= call.boundary.lower
    /\ Unwrap(ret) <= call.boundary.upper

\* C12: for WrapBoth((lower, upper)) and any draw, however far out of range,
\* sample returns, and what it returns is the draw shifted by an integer
\* multiple of upper - lower; a draw of 35 with (-10, 10) yields -5.
C12_WrapTerminates ==
    /\ <>(ret # None)
    /\ [](ret # None /\ call.boundary.kind = "WrapBoth" =>
            /\ (Unwrap(ret) - call.value) % (call.boundary.upper - call.boundary.lower) = 0
            /\ (call.value = 35 /\ call.boundary.lower = -10 /\ call.boundary.upper = 10)
                  => Unwrap(ret) = -5)

(***************************************************************************)
(* SpecSize: set_mass followed by set_radius of the radius it stored, and  *)
(* set_radius followed by set_mass of the mass it stored, on a new body.   *)
(* Masses and radii are in thousandths, from a tenth of a unit up for a    *)
(* BlackHole and across the three brackets for a World.                    *)
(***************************************************************************)
MaxSize == 40
SizeStep == 100

BlackHoleSizes == {SizeStep * k : k \in 1..MaxSize}

WorldMasses ==
    {250, 500, 1000, 2000, 3000, 4000, 5000, 5100, 6000, 20000, 50000, 100000,
     127000, 127500, 128000, 150000, 200000, 500000}

SizeInputs ==
    {[op |-> op, otype |-> "BlackHole", value |-> v] :
        op \in {"set_mass", "set_radius"}, v \in BlackHoleSizes}
    \cup {[op |-> "set_mass", otype |-> "World", value |-> m] : m \in WorldMasses}

InitSize == Called(SizeInputs)

\* new(otype).set_mass(value).set_radius(radius)
MassThenRadius ==
    /\ call.op = "set_mass"
    /\ LET first == set_mass_in(Fixed, Movable_new(call.otype, 0), call.value)
       IN Returns(set_radius_in(Fixed, first, first.size.radius).size)

\* new(otype).set_radius(value).set_mass(mass)
RadiusThenMass ==
    /\ call.op = "set_radius"
    /\ LET first == set_radius_in(Fixed, Movable_new(call.otype, 0), call.value)
       IN Returns(set_mass_in(Fixed, first, first.size.mass).size)

NextSize == MassThenRadius \/ RadiusThenMass

SpecSize == InitSize /\ [][NextSize]_vars

\* restored differs from original by at most one part in a hundred
WithinTolerance(restored, original) == 100 * Abs(restored - original) <= original

\* C13: for a World and every mass of each of the three brackets, set_mass
\* followed by set_radius of the resulting radius restores the mass within
\* tolerance.
C13_WorldRoundTrip ==
    (ret # None /\ call.otype = "World" /\ call.op = "set_mass")
        => WithinTolerance(Unwrap(ret).mass, call.value)

\* what a BlackHole round trip must restore: the mass exactly, the radius up
\* to the rounding of radius / 3.0
BlackHoleRestored ==
    /\ call.op = "set_mass" => Unwrap(ret).mass = call.value
    /\ call.op = "set_radius" => Abs(Unwrap(ret).radius - call.value) <= 1

CollideBodies(id) == {Built(id, x, 0, 0, 0, mass) : x \in GridX, mass \in Masses}

CollideSets ==
    {{}}
    \cup UNION {{{m} : m \in CollideBodies(i)} : i \in 0..3}
    \cup UNION {{{m, n} : m \in CollideBodies(ids[1]), n \in CollideBodies(ids[2])} :
                    ids \in {pair \in (0..3) \X (0..3) : pair[1] < pair[2]}}

InitCollide ==
    /\ bodies = <<>>
    /\ state = GameState_new
    /\ BLACKHOLECOUNT = 4
    /\ WORLDCOUNT = 0
    /\ pc = "idle"
    /\ workers = {}
    /\ to_despawn = {}
    /\ to_destroy = CollisionFrame_new
    /\ commands = <<>>
    /\ delta = 0
    /\ elapsed_secs = 0
    /\ sliders = SliderDefaults
    /\ call \in {[op |-> "collide", self |-> set] : set \in CollideSets}
    /\ ret = None

Collide ==
    /\ call.op = "collide"
    /\ ret = None
    /\ LET collision == collide(call.self, BLACKHOLECOUNT)
       IN /\ ret' = Some(collision.result)
          /\ BLACKHOLECOUNT' = BLACKHOLECOUNT + collision.ids
    /\ UNCHANGED <<bodies, state, WORLDCOUNT, pc, workers, to_despawn,
                   to_destroy, commands, delta, elapsed_secs, sliders, call>>

NextCollide == Collide

SpecCollide == InitCollide /\ [][NextCollide]_vars

\* C17: collide returns CollisionResult::None for every set of fewer than two
\* members, creating no body and consuming no id.
C17_CollideNeedsTwo ==
    (ret # None /\ CollisionSet_len(call.self) < 2)
        => (Unwrap(ret) = <<>> /\ BLACKHOLECOUNT = 4)

\* collide has returned for a set of one member
C17_Witness ==
    /\ ret = Some(<<>>)
    /\ CollisionSet_len(call.self) = 1
    /\ BLACKHOLECOUNT = 4

(***************************************************************************)
(* The game (src/src/objects/plugins.rs): the observers of the field       *)
(* (place_planet, planet_dragged, check_for_start), which run between two  *)
(* frames and whose Commands are applied when they return, and the systems *)
(* of the Update schedule, frame after frame: drag_slider,                 *)
(* update_slider_results and its deferred Commands, update_velocity,       *)
(* update_motion, update_collisions and its deferred Commands,             *)
(* check_for_gameover.  Before the start the physics systems return at     *)
(* once and after it update_slider_results does, so the order of the two   *)
(* chains of the schedule makes no difference.  call holds the last        *)
(* observer that ran since the frame before.                               *)
(***************************************************************************)
BLACKHOLE_COUNT_LOWER == 2
BLACKHOLE_COUNT_UPPER == 100
BLACKHOLE_MASS_UPPER == 20
BLACKHOLE_VEL_LOWER == -1000
BLACKHOLE_VEL_UPPER == 1000

\* the loops of sample, for a draw that they bring back into the range
RECURSIVE while_lower(_, _)
while_lower(boundary, wrapped) ==
    IF wrapped < boundary.lower
    THEN while_lower(boundary, F32(wrapped + F32(-boundary.lower + boundary.upper)))
    ELSE wrapped

RECURSIVE while_upper(_, _)
while_upper(boundary, wrapped) ==
    IF wrapped > boundary.upper
    THEN while_upper(boundary, F32(wrapped + F32(-boundary.upper + boundary.lower)))
    ELSE wrapped

\* Gauss::sample, value being the draw of the normal distribution
sample(boundary, value) ==
    IF boundary.kind = "WrapBoth"
    THEN while_upper(boundary, while_lower(boundary, value))
    ELSE sample_match(boundary, value)

\* the generators of setup_objects and update_slider_results
position_rand == [kind |-> "WrapBoth", lower |-> -BOUNDARY, upper |-> BOUNDARY]

bh_mass_rand ==
    [kind |-> "ClampBoth", lower |-> BLACKHOLE_MASS_LOWER, upper |-> BLACKHOLE_MASS_UPPER]

bh_vel_rand ==
    [kind |-> "ClampBoth", lower |-> BLACKHOLE_VEL_LOWER, upper |-> BLACKHOLE_VEL_UPPER]

MaxFrames == 3
MaxFrameTime == 16
MaxDragFrames == 1
MaxPlanets == 2
MaxDrag == 3

\* the draws of the generators when a slider has changed: a mass within the
\* range, a velocity above it, a position that is wrapped; the second draw of
\* a pair is 0
MassDraws == {BLACKHOLE_MASS_LOWER + 1}
VelocityDraws == {BLACKHOLE_VEL_UPPER + 1}
PositionDraws == {UNIVERSE_SIZE + 2 * GridStep}

\* the draws of the position, the velocity and the mass of a new black hole
SpawnDraws ==
    {<<0, 0, BLACKHOLE_MASS_LOWER - 1>>,
     <<UNIVERSE_SIZE + 2 * GridStep, BLACKHOLE_VEL_UPPER + 1, BLACKHOLE_MASS_LOWER + 1>>}

\* where the pointer is pressed on a slider, in hundredths of its width from
\* its middle, and where it is pressed on the field
CursorPositions(slider_type) == IF slider_type = "Count" THEN {-51, -46} ELSE {-46}
PlanetPositions == {<<0, 3 * GridStep>>}
DragDeltas == {<<MaxDrag, MaxDrag>>}

BlackHoles(world) == {e \in DOMAIN world : world[e].otype = "BlackHole"}
ThePlanet(world) == {e \in DOMAIN world : world[e].otype = "World"}

\* the first frame of the Update schedule: Time is advanced
TimeUpdate ==
    /\ pc = "idle"
    /\ elapsed_secs < MaxFrames * MaxFrameTime
    /\ delta' = MaxFrameTime
    /\ elapsed_secs' = elapsed_secs + MaxFrameTime
    /\ call' = <<>>
    /\ pc' = "drag_slider"
    /\ UNCHANGED <<bodies, state, BLACKHOLECOUNT, WORLDCOUNT, workers,
                   to_despawn, to_destroy, commands, sliders, ret>>

\* the body of the loop of drag_slider for a slider that is pressed at cursor
dragged(slider_value, cursor) ==
    [prev_value |-> slider_value.value,
     value |-> 50 + Min(Max(cursor, -50), 50)]

\* drag_slider: no slider is pressed, or the pointer presses one
DragSlider ==
    /\ pc = "drag_slider"
    /\ \/ UNCHANGED sliders
       \/ /\ elapsed_secs <= MaxDragFrames * MaxFrameTime
          /\ \E slider_type \in SliderTypes :
             \E cursor \in CursorPositions(slider_type) :
                sliders' = [sliders EXCEPT
                               ![slider_type] = dragged(sliders[slider_type], cursor)]
    /\ pc' = "update_slider_results"
    /\ UNCHANGED <<bodies, state, BLACKHOLECOUNT, WORLDCOUNT, workers,
                   to_despawn, to_destroy, commands, delta, elapsed_secs, call, ret>>

\* the black hole count that a value of the Count slider stands for
bh_count(value) ==
    Max(FDiv(value * BLACKHOLE_COUNT_UPPER, 100), BLACKHOLE_COUNT_LOWER)

count_difference(slider_value) ==
    bh_count(slider_value.value) - bh_count(slider_value.prev_value)

\* one of the three loops of update_slider_results over the objects: the
\* worlds that it can leave, one per choice of the draws
RECURSIVE resample(_, _, _)
resample(world, entities, slider_type) ==
    IF entities = <<>> THEN {world}
    ELSE LET entity == Head(entities)
             movable == world[entity]
             changed ==
                 IF movable.otype # "BlackHole" THEN {movable}
                 ELSE CASE slider_type = "Mass" ->
                             {set_mass(movable, sample(bh_mass_rand, draw)) :
                                 draw \in MassDraws}
                        [] slider_type = "Velocity" ->
                             {set_velocity(movable, sample(bh_vel_rand, draw),
                                           sample(bh_vel_rand, 0)) :
                                 draw \in VelocityDraws}
                        [] slider_type = "Density" ->
                             {set_position(movable, sample(position_rand, draw),
                                           sample(position_rand, 0)) :
                                 draw \in PositionDraws}
         IN UNION {resample([world EXCEPT ![entity] = new], Tail(entities), slider_type) :
                      new \in changed}

\* the worlds after the loop of slider_type, which runs if the slider changed
resampled(worlds, slider_type) ==
    IF sliders[slider_type].value # sliders[slider_type].prev_value
    THEN UNION {resample(world, InOrder(DOMAIN world), slider_type) : world \in worlds}
    ELSE worlds

\* the spawns of the while loop of update_slider_results, one sequence per
\* choice of the draws
spawned(count) ==
    {[k \in 1..count |->
         [op |-> "spawn",
          object |-> Built(BLACKHOLECOUNT + k - 1,
                           sample(position_rand, draws[k][1]), sample(position_rand, 0),
                           sample(bh_vel_rand, draws[k][2]), sample(bh_vel_rand, 0),
                           sample(bh_mass_rand, draws[k][3]))]] :
        draws \in [1..count -> SpawnDraws]}

\* the despawns of the last loop of update_slider_results
destroyed(count) ==
    LET black_holes == InOrder(BlackHoles(bodies))
    IN [k \in 1..Min(count, Len(black_holes)) |->
           [op |-> "despawn", entity |-> black_holes[k]]]

UpdateSliderResults ==
    /\ pc = "update_slider_results"
    /\ IF state.game_started
       THEN UNCHANGED <<bodies, BLACKHOLECOUNT, commands>>
       ELSE LET difference == count_difference(sliders["Count"])
            IN /\ bodies' \in resampled(resampled(resampled({bodies}, "Mass"),
                                                  "Velocity"), "Density")
               /\ IF difference > 0
                  THEN /\ commands' \in spawned(difference)
                       /\ BLACKHOLECOUNT' = BLACKHOLECOUNT + difference
                  ELSE /\ commands' = destroyed(-difference)
                       /\ BLACKHOLECOUNT' = BLACKHOLECOUNT
    /\ pc' = "apply_slider_results"
    /\ UNCHANGED <<state, WORLDCOUNT, workers, to_despawn, to_destroy, delta,
                   elapsed_secs, sliders, call, ret>>

\* the sync point after update_slider_results
ApplySliderResults ==
    /\ pc = "apply_slider_results"
    /\ bodies' = apply(bodies, commands)
    /\ commands' = <<>>
    /\ pc' = "update_velocity"
    /\ UNCHANGED <<state, BLACKHOLECOUNT, WORLDCOUNT, workers, to_despawn,
                   to_destroy, delta, elapsed_secs, sliders, call, ret>>

\* the system update_velocity
UpdateVelocity ==
    /\ pc = "update_velocity"
    /\ bodies' = IF state.game_started /\ state.game_alive
                 THEN LET order == InOrder(DOMAIN bodies)
                          vec == [k \in 1..Len(order) |-> bodies[order[k]]]
                          velocities == [e \in DOMAIN bodies |->
                                            update_velocity(bodies[e], vec, delta)]
                      IN [e \in DOMAIN bodies |->
                             set_velocity(bodies[e], velocities[e].vx, velocities[e].vy)]
                 ELSE bodies
    /\ pc' = "update_motion"
    /\ UNCHANGED <<state, BLACKHOLECOUNT, WORLDCOUNT, workers, to_despawn,
                   to_destroy, commands, delta, elapsed_secs, sliders, call, ret>>

\* the Commands of place_planet without the loop over planet_query
place_planet_Keep(planet_query, object) == <<[op |-> "spawn", object |-> object]>>

\* the Commands of place_planet once the camera has mapped the pointer
place_planet(planet_query, object) ==
    [k \in 1..Len(planet_query) |-> [op |-> "despawn", entity |-> planet_query[k]]]
    \o <<[op |-> "spawn", object |-> object]>>

\* the observer of Pointer<Press>, the pointer being at <<x, y>> of the field
PlacePlanet(x, y) ==
    /\ pc = "idle"
    /\ WORLDCOUNT < MaxPlanets
    /\ call' = [op |-> "place_planet", x |-> x, y |-> y]
    /\ IF state.game_started
       THEN UNCHANGED <<bodies, state, WORLDCOUNT>>
       ELSE /\ bodies' = apply(bodies,
                               place_planet(InOrder(ThePlanet(bodies)),
                                            build(set_size(set_velocity(set_position(
                                                Movable_new("World", WORLDCOUNT), x, y),
                                                0, 0), 0, 50))))
            /\ WORLDCOUNT' = WORLDCOUNT + 1
            /\ state' = [state EXCEPT !.planet_placed = TRUE]
    /\ UNCHANGED <<BLACKHOLECOUNT, pc, workers, to_despawn, to_destroy, commands,
                   delta, elapsed_secs, sliders, ret>>

\* planet_dragged without the test of game_started
planet_dragged_Started(world, game_state, dx, dy) ==
    IF ThePlanet(world) = {} THEN world
    ELSE LET planet == CHOOSE e \in ThePlanet(world) : TRUE
         IN [world EXCEPT ![planet].velocity.vx = @ + dx * 10,
                          ![planet].velocity.vy = @ + (-dy) * 10]

\* planet_dragged on the objects of the world
planet_dragged(world, game_state, dx, dy) ==
    IF game_state.game_started \/ ThePlanet(world) = {} THEN world
    ELSE LET planet == CHOOSE e \in ThePlanet(world) : TRUE
         IN [world EXCEPT ![planet].velocity.vx = @ + dx * 10,
                          ![planet].velocity.vy = @ + (-dy) * 10]

\* the observer of Pointer<Drag>, the pointer having moved by <<dx, dy>>
PlanetDragged(dx, dy) ==
    /\ pc = "idle"
    /\ \A e \in ThePlanet(bodies) :
          Abs(bodies[e].velocity.vx) + Abs(bodies[e].velocity.vy) < 10 * MaxDrag
    /\ call' = [op |-> "planet_dragged", dx |-> dx, dy |-> dy]
    /\ bodies' = planet_dragged(bodies, state, dx, dy)
    /\ UNCHANGED <<state, BLACKHOLECOUNT, WORLDCOUNT, pc, workers, to_despawn,
                   to_destroy, commands, delta, elapsed_secs, sliders, ret>>

\* the observer of Pointer<Release>
CheckForStart ==
    /\ pc = "idle"
    /\ call' = [op |-> "check_for_start"]
    /\ state' = IF state.game_started \/ ~state.planet_placed
                THEN state
                ELSE [state EXCEPT !.game_started = TRUE]
    /\ UNCHANGED <<bodies, BLACKHOLECOUNT, WORLDCOUNT, pc, workers, to_despawn,
                   to_destroy, commands, delta, elapsed_secs, sliders, ret>>

\* after Startup the Count slider was dragged to three hundredths and held
\* there: the last three black holes of setup_objects remain, at rest and apart
Init ==
    /\ bodies = <<Built(47, 0, 0, 0, 0, BLACKHOLE_MASS_LOWER),
                  Built(48, GridStep, 0, 0, 0, BLACKHOLE_MASS_LOWER),
                  Built(49, 2 * GridStep, 0, 0, 0, BLACKHOLE_MASS_LOWER)>>
    /\ state = GameState_new
    /\ BLACKHOLECOUNT = 50
    /\ WORLDCOUNT = 0
    /\ pc = "idle"
    /\ workers = {}
    /\ to_despawn = {}
    /\ to_destroy = CollisionFrame_new
    /\ commands = <<>>
    /\ delta = 0
    /\ elapsed_secs = 0
    /\ sliders = [SliderDefaults EXCEPT !["Count"] = [value |-> 3, prev_value |-> 3]]
    /\ call = <<>>
    /\ ret = None

Next ==
    \/ \E position \in PlanetPositions : PlacePlanet(position[1], position[2])
    \/ \E drag \in DragDeltas : PlanetDragged(drag[1], drag[2])
    \/ CheckForStart
    \/ TimeUpdate
    \/ DragSlider
    \/ UpdateSliderResults
    \/ ApplySliderResults
    \/ UpdateVelocity
    \/ NextFrame

Spec == Init /\ [][Next]_vars

\* C15: when check_for_gameover has run in a started game, world_alive is
\* false if no World body exists and game_alive is false if at most one body
\* exists in total; no step taken while the game has not been started clears
\* either flag.
C15_GameoverFlags ==
    [][/\ (pc = "check_for_gameover" /\ state.game_started) =>
             /\ ThePlanet(bodies') = {} => ~state'.world_alive
             /\ Cardinality(DOMAIN bodies') <= 1 => ~state'.game_alive
       /\ ~state.game_started =>
             /\ state.world_alive => state'.world_alive
             /\ state.game_alive => state'.game_alive]_vars

\* check_for_gameover has just ended a started game in which one black hole
\* is all that remains
C15_Witness ==
    /\ pc = "idle"
    /\ elapsed_secs > 0
    /\ call = <<>>
    /\ state.game_started
    /\ ThePlanet(bodies) = {}
    /\ Cardinality(DOMAIN bodies) = 1
    /\ ~state.world_alive
    /\ ~state.game_alive

\* what the simulation holds of the bodies: their set, and the mass, the
\* velocity and the position of each
Simulation(world) ==
    [e \in DOMAIN world |->
        [mass |-> world[e].size.mass, velocity |-> world[e].velocity,
         x |-> world[e].position.x, y |-> world[e].position.y]]

\* C16: once game_started is true, update_slider_results (with its deferred
\* Commands), place_planet and planet_dragged leave the set of bodies and the
\* mass, the velocity and the position of every body unchanged.
C16_StartedIgnoresInput ==
    [][(/\ state.game_started
        /\ \/ pc \in {"update_slider_results", "apply_slider_results"}
           \/ pc = "idle" /\ pc' = "idle" /\ call'.op \in {"place_planet", "planet_dragged"})
       => Simulation(bodies') = Simulation(bodies)]_vars

\* in a started game update_slider_results has run with the Count, the Mass,
\* the Velocity or the Density slider changed
C16_Witness ==
    /\ pc = "apply_slider_results"
    /\ state.game_started
    /\ \E slider_type \in SliderTypes :
          sliders[slider_type].value # sliders[slider_type].prev_value
    /\ ThePlanet(bodies) # {}
    /\ commands = <<>>

\* the counter that Movable::new reads for a kind
Counter(otype) == IF otype = "BlackHole" THEN BLACKHOLECOUNT ELSE WORLDCOUNT

\* the bodies that Movable::new has returned and that are in the active set
\* or about to be spawned into it
Issued(world, queue) ==
    {world[e] : e \in DOMAIN world}
    \cup {queue[k].object : k \in {i \in 1..Len(queue) : queue[i].op = "spawn"}}

IssuedIds(world, queue, otype) ==
    {movable.id : movable \in {m \in Issued(world, queue) : m.otype = otype}}

C19_PositiveMass ==
    /\ \A e \in DOMAIN bodies : bodies[e].size.mass > 0
    /\ \A k \in 1..Len(to_destroy) :
          \A one, two \in to_destroy[k] :
              ~MovableEq(one, two) => one.size.mass + two.size.mass > 0

\* C20: in every reachable state the number of World bodies in the active
\* set is 0 or 1, whatever presses, drags, frames and collisions occurred.
C20_OneWorld == Cardinality(ThePlanet(bodies)) <= 1

\* the field has been pressed twice and one planet, the second, is in the
\* active set
C20_Witness ==
    /\ WORLDCOUNT = 2
    /\ call = [op |-> "place_planet", x |-> 0, y |-> 3 * GridStep]
    /\ Cardinality(ThePlanet(bodies)) = 1
    /\ \A e \in ThePlanet(bodies) : bodies[e].id = 1

(***************************************************************************)
(* SpecResolve: CollisionSet::collide on a group of two to MaxGroup        *)
(* members, each a black hole as the builder chain of setup_objects leaves *)
(* it or a World as the builder chain of place_planet leaves it, at rest   *)
(* or moving.  The two kinds draw their ids from two counters, and a       *)
(* BTreeSet holds one member per id.  The active set of the game holds at  *)
(* most one World, so a group with a black hole has at most one; a group   *)
(* of Worlds alone is one that process_collisions, a public function, can  *)
(* be given.                                                               *)
(***************************************************************************)
MaxGroup == 3

\* <<mass, radius>> of a World: the planet of place_planet, and two planets
\* whose radius is three times their mass
WorldSizes == {<<0, 50>>, <<2, 6>>, <<4, 12>>}

GroupVelocities == {<<0, 0>>, <<300, 400>>}

GroupMembers(id) ==
    {build(set_velocity(Built(id, x, 0, 0, 0, mass), v[1], v[2])) :
        x \in {0, GridStep}, mass \in Masses, v \in GroupVelocities}
    \cup {build(set_size(set_velocity(set_position(Movable_new("World", id), GridStep, id),
                                      v[1], v[2]),
                         size[1], size[2])) :
             size \in WorldSizes, v \in GroupVelocities}

InitResolve ==
    /\ bodies = <<>>
    /\ state = GameState_new
    /\ BLACKHOLECOUNT = MaxGroup
    /\ WORLDCOUNT = MaxGroup
    /\ pc = "idle"
    /\ workers = {}
    /\ to_despawn = {}
    /\ to_destroy = CollisionFrame_new
    /\ commands = <<>>
    /\ delta = 0
    /\ elapsed_secs = 0
    /\ sliders = SliderDefaults
    /\ \E ids \in SUBSET (0..(MaxGroup - 1)) :
          /\ Cardinality(ids) >= 2
          /\ \E members \in [ids -> UNION {GroupMembers(id) : id \in ids}] :
                /\ \A id \in ids : members[id].id = id
                /\ \/ \A id \in ids : members[id].otype = "World"
                   \/ Cardinality({id \in ids : members[id].otype = "World"}) <= 1
                /\ call = [op |-> "collide", self |-> {members[id] : id \in ids}]
    /\ ret = None

SpecResolve == InitResolve /\ [][NextCollide]_vars

\* the members of a group in ascending order of their ids
ById(group) ==
    [i \in 1..Cardinality(group) |->
        CHOOSE m \in group : Cardinality({o \in group : o.id < m.id}) = i - 1]

\* the first k items merged two by two from the left, the first merge taking id
RECURSIVE LeftFold(_, _, _)
LeftFold(items, k, id) ==
    IF k = 2 THEN generate_blackhole(items[1], items[2], id)
    ELSE generate_blackhole(LeftFold(items, k - 1, id), items[k], id + k - 2)

RECURSIVE MassSum(_, _)
MassSum(items, k) == IF k = 0 THEN 0 ELSE MassSum(items, k - 1) + items[k].size.mass

\* C21: resolving a group of k >= 2 members of which at least one is a
\* BlackHole yields exactly one body, a BlackHole, whose mass is the sum of
\* the masses of the k members and which is the left fold of two-body merges
\* over the members in ascending order of their ids.
C21_GroupMergesToOne ==
    (/\ ret # None
     /\ CollisionSet_len(call.self) >= 2
     /\ \E m \in call.self : m.otype = "BlackHole")
        => LET items == ById(call.self)
               k == Len(items)
               result == Unwrap(ret)
           IN /\ Len(result) = 1
              /\ result[1].otype = "BlackHole"
              /\ result[1].size.mass = MassSum(items, k)
              /\ result[1] = LeftFold(items, k, MaxGroup)

\* a group of three, a World among them, has been resolved into one body
C21_Witness ==
    /\ ret # None
    /\ CollisionSet_len(call.self) = 3
    /\ \E m \in call.self : m.otype = "BlackHole"
    /\ \E m \in call.self : m.otype = "World"
    /\ Len(Unwrap(ret)) = 1
    /\ BLACKHOLECOUNT = MaxGroup + 2

\* C22: resolving a group whose k >= 2 members are all Worlds yields exactly
\* 2k bodies, two per member, each with half the radius and half the mass of
\* its parent.
C22_WorldsSplitInHalves ==
    (/\ ret # None
     /\ CollisionSet_len(call.self) >= 2
     /\ \A m \in call.self : m.otype = "World")
        => LET items == ById(call.self)
               k == Len(items)
               result == Unwrap(ret)
           IN /\ Len(result) = 2 * k
              /\ \A i \in 1..k : \A fragment \in {result[2 * i - 1], result[2 * i]} :
                    /\ 2 * fragment.size.radius = items[i].size.radius
                    /\ 2 * fragment.size.mass = items[i].size.mass

\* the lines of the segments that a and b swept cross at one point, and the
\* point lies within the bounding boxes of both segments
CrossWithin(a, b) ==
    /\ Moved(a)
    /\ Moved(b)
    /\ LET l1 == Unwrap(gen_line_segment(a.position))
           l2 == Unwrap(gen_line_segment(b.position))
           det == (l1.b * l2.a) - (l2.b * l1.a)
           int_x == l2.b * l1.c - l1.b * l2.c   \* times det
           int_y == l1.a * l2.c - l2.a * l1.c   \* times det
           InBox(m) ==
               /\ LeQuot(FMin(m.position.x, m.position.x_prev), int_x, det)
               /\ GeQuot(FMax(m.position.x, m.position.x_prev), int_x, det)
               /\ LeQuot(FMin(m.position.y, m.position.y_prev), int_y, det)
               /\ GeQuot(FMax(m.position.y, m.position.y_prev), int_y, det)
       IN det # 0 /\ InBox(a) /\ InBox(b)

\* C23: when both bodies moved, their lines are not parallel and the point
\* where the lines cross lies within the bounding boxes of both segments,
\* minimum_distance returns 0 and collided returns true.
C23_CrossingCollides ==
    (ret # None /\ CrossWithin(call.self, call.other))
        => /\ Unwrap(minimum_distance(get_position(call.self),
                                      get_position(call.other))).num = 0
           /\ Unwrap(ret).self_other

\* C24: in every frame no despawn and no spawn is issued until every worker
\* of the parallel scan has finished, and all the despawns of the frame are
\* issued before any of its spawns.
C24_DeferredAfterJoin ==
    /\ workers # {} => commands = <<>>
    /\ pc = "par_iter" => commands = <<>>
    /\ pc = "apply_deferred" =>
          /\ workers = {}
          /\ \A i \in 1..Len(commands) : \A j \in 1..Len(commands) :
                (commands[i].op = "spawn" /\ commands[j].op = "despawn") => j < i

\* update_collisions has issued the despawns of a group and then its spawn
C24_Witness ==
    /\ pc = "apply_deferred"
    /\ workers = {}
    /\ Len(commands) >= 3
    /\ commands[1].op = "despawn"
    /\ commands[Len(commands)].op = "spawn"

\* C25: in a frame where game_started is false or game_alive is false,
\* update_velocity, update_motion and update_collisions (with its deferred
\* Commands) leave the position, the previous position, the velocity and the
\* mass of every body unchanged, and spawn and despawn nothing.
C25_PhysicsGated ==
    [][(/\ ~(state.game_started /\ state.game_alive)
        /\ pc \in {"update_velocity", "update_motion", "update_collisions",
                   "par_iter", "apply_deferred"})
       => /\ bodies' = bodies
          /\ commands' = <<>>
          /\ workers' = {}]_vars

\* the physics systems have run in a frame after the game was over, with
\* bodies left that move
C25_Witness ==
    /\ pc = "check_for_gameover"
    /\ state.game_started
    /\ ~state.game_alive
    /\ \E e \in DOMAIN bodies : bodies[e].velocity.vx # 0 \/ bodies[e].velocity.vy # 0

(***************************************************************************)
(* SpecScan: one frame, from update_motion on, of a started game of        *)
(* MaxScan black holes in a row that all move upwards by the same amount.  *)
(* Two neighbours are either near enough to collide or a grid step apart.  *)
(* The closures of the parallel scan run in any order.                     *)
(***************************************************************************)
MaxScan == 4

ScanGaps == {GridStep \div 2, GridStep}

\* the black holes of the row, gaps[k] being the distance from the k-th to
\* the next
RECURSIVE ScanRow(_, _, _, _)
ScanRow(k, x, gaps, masses) ==
    IF k > MaxScan THEN <<>>
    ELSE <<Built(k - 1, x, 0, 0, GridStep \div 4, masses[k])>>
         \o ScanRow(k + 1, IF k < MaxScan THEN x + gaps[k] ELSE x, gaps, masses)

InitScan ==
    /\ \E gaps \in [1..(MaxScan - 1) -> ScanGaps], masses \in [1..MaxScan -> Masses] :
          bodies = ScanRow(1, 0, gaps, masses)
    /\ state = StartedGame
    /\ BLACKHOLECOUNT = MaxScan
    /\ WORLDCOUNT = 1
    /\ pc = "update_motion"
    /\ workers = {}
    /\ to_despawn = {}
    /\ to_destroy = CollisionFrame_new
    /\ commands = <<>>
    /\ delta = Fixed
    /\ elapsed_secs = Fixed
    /\ sliders = SliderDefaults
    /\ call = <<>>
    /\ ret = None

SpecScan == InitScan /\ [][NextFrame]_vars

\* the CollisionSet that the closure of entity pushes
ScanSet(entity) == {bodies[i] : i \in Partners(entity)} \cup {bodies[entity]}

\* the CollisionFrame after the closures of the entities have pushed their
\* sets one after the other, in the order of the sequence
RECURSIVE PushedInOrder(_, _)
PushedInOrder(entities, frame) ==
    IF entities = <<>> THEN frame
    ELSE PushedInOrder(Tail(entities),
                       IF Partners(Head(entities)) = {} THEN frame
                       ELSE CollisionFrame_push(frame, ScanSet(Head(entities))))

Groups(frame) == {frame[i] : i \in 1..Len(frame)}

\* C26: the groups that the CollisionFrame holds after the parallel scan are
\* the same for every interleaving of the workers: they are the groups that
\* the closures leave when they run one after the other in the order of the
\* entities.
C26_GroupsOrderFree ==
    (pc = "par_iter" /\ workers = {})
        => Groups(to_destroy) = Groups(PushedInOrder(InOrder(DOMAIN bodies), CollisionFrame_new))

\* the sum of the masses of the bodies of the active set
TotalMass(world) ==
    LET order == InOrder(DOMAIN world)
    IN MassSum([k \in 1..Len(order) |-> world[order[k]]], Len(order))

\* C27: every body that collided in a frame gives its mass to exactly one of
\* the bodies that the frame spawns, so with a black hole in every group the
\* total mass of the active set after update_collisions (its Commands
\* applied) is the total mass before it.
C27_MassConserved ==
    [][pc = "apply_deferred"
       => /\ TotalMass(bodies') = TotalMass(bodies)
          /\ \A e \in to_despawn :
                Cardinality({i \in 1..Len(to_destroy) : bodies[e] \in to_destroy[i]}) = 1]_vars

(***************************************************************************)
(* SpecTwins: the game after the Count slider was dragged down to three    *)
(* hundredths one step per frame.  Every frame despawned the first black   *)
(* hole of the query and the last one took its row, so the black holes     *)
(* that remain are among the first that setup_objects spawned.  The two    *)
(* counters both start at 0 (movables.rs:23-24).                           *)
(***************************************************************************)
InitTwins ==
    /\ bodies = <<Built(3, 0, 0, 0, 0, BLACKHOLE_MASS_LOWER),
                  Built(1, GridStep, 0, 0, 0, BLACKHOLE_MASS_LOWER),
                  Built(2, 2 * GridStep, 0, 0, 0, BLACKHOLE_MASS_LOWER)>>
    /\ state = GameState_new
    /\ BLACKHOLECOUNT = 50
    /\ WORLDCOUNT = 0
    /\ pc = "idle"
    /\ workers = {}
    /\ to_despawn = {}
    /\ to_destroy = CollisionFrame_new
    /\ commands = <<>>
    /\ delta = 0
    /\ elapsed_secs = 0
    /\ sliders = [SliderDefaults EXCEPT !["Count"] = [value |-> 3, prev_value |-> 3]]
    /\ call = <<>>
    /\ ret = None

SpecTwins == InitTwins /\ [][Next]_vars

\* C28: two distinct bodies that are alive at the same time compare unequal,
\* a World and a BlackHole included, so that no body is dropped from the
\* CollisionSet that its own closure pushes.
C28_DistinctBodiesUnequal ==
    /\ \A e1 \in DOMAIN bodies, e2 \in DOMAIN bodies :
          e1 # e2 => ~MovableEq(bodies[e1], bodies[e2])
    /\ pc = "par_iter" =>
          \A e \in to_despawn : \E i \in 1..Len(to_destroy) : bodies[e] \in to_destroy[i]

\* C29: collided is symmetric: a.collided(b) equals b.collided(a) for any two
\* bodies a and b.
C29_CollidedSymmetric ==
    ret # None => Unwrap(ret).self_other = Unwrap(ret).other_self

\* C30: before the game starts, whatever drags of the sliders and frames have
\* gone by (frames in which the Count slider is no longer pressed included),
\* the number of black holes is the target of the Count slider,
\* max(round(value * 100), 2).
C30_CountFollowsSlider ==
    (pc = "idle" /\ ~state.game_started)
        => Cardinality(BlackHoles(bodies)) = bh_count(sliders["Count"].value)
====
